---- MODULE Spec2Model ----
(***************************************************************************)
(* Replay synchronization engine of f1Replay (App component): the session  *)
(* clock, the replay loop driven by requestAnimationFrame, the dynamic     *)
(* location / car-data buffers with their prefetcher, seeking and focus    *)
(* driver switching.                                                       *)
(*                                                                         *)
(* Virtual (session) time is in milliseconds, as Date.getTime() gives it.  *)
(* Wall-clock time (performance.now(), a fractional number of ms) is in    *)
(* microseconds.  A Date built from a fractional number of milliseconds    *)
(* keeps the integer part only.                                            *)
(*                                                                         *)
(* React is modelled at the granularity of one handler: a handler, the     *)
(* re-render its state updates cause and the effects of that render are    *)
(* one step.  A function defined in the component body sees the state of   *)
(* the render it was created in; the closures that outlive a render (the   *)
(* tick of the replay effect, initSession) carry a copy of that state.     *)
(*                                                                         *)
(* A run of the replay effect starts a loop of requestAnimationFrame       *)
(* callbacks.  A frame ages every loop and then runs, one step each, the   *)
(* tick of every loop that has a frame pending; a setIsPlaying(false) of   *)
(* a tick is rendered once the callbacks of the frame have run.  A tick    *)
(* that awaits fetchDynamicBuffer has no frame pending, so the cleanup of  *)
(* the effect cannot cancel it: it resumes when the fetch is answered.     *)
(* An awaited call resumes in the step that answers it.                    *)
(***************************************************************************)
EXTENDS Integers, Sequences, FiniteSets, TLC

\* ------------------------------------------------------------------ bounds
MaxChains == 2          \* tick chains (requestAnimationFrame loops) tracked at once
MaxSteps == 5           \* operator actions and frames with a processed tick in one behaviour
MaxElapsed == 48000     \* longest wall-clock time (us) a chain stays without a processed tick
MaxStaleSteps == 8      \* operator actions and processed frames in a behaviour of SpecStale
MaxWait == 100000       \* longest wall-clock time (us) a fetch takes in a behaviour of SpecLive
MaxLen == 3             \* longest buffer of one driver in the initial states of SpecView

\* the entries updateViewState looks back over for the standings
positionWindow == 500

\* ------------------------------------------------------- values for "null"
NoSession == 0          \* selectedSession === null
NoDriver == 0           \* selectedDriver === null
NoTime == -1            \* a Date | null state holding null

\* ------------------------------------------------------------ input sets
Sessions == {1, 2}
LongSession == 3         \* a session with more position entries than positionWindow
Speeds == {1, 10}
SpeedOptions == {1, 2, 5, 10, 20, 50}
FrameDeltas == {16000, 34500}
Pcts == {-100, 250, 1100}
StalePcts == {990, 1100}
LiveFrames == {50000}

\* The data source: what the OpenF1 endpoints hold for each session.
date_start(s) == IF s = 2 THEN 100000 ELSE 0
date_end(s) == IF s = 1 THEN 10000 ELSE IF s = 2 THEN 900000 ELSE 5000

DriversOf(s) == IF s = 2 THEN {44} ELSE {1, 44}

LocationsOf(s) ==
  IF s = 1
  THEN { [driver_number |-> 44, date |-> 2000, x |-> 0, y |-> 0, session_key |-> 1],
         [driver_number |-> 44, date |-> 3000, x |-> 100, y |-> 40, session_key |-> 1],
         [driver_number |-> 1, date |-> 2000, x |-> 10, y |-> 10, session_key |-> 1] }
  ELSE IF s = LongSession THEN {}
  ELSE { [driver_number |-> 44, date |-> 112500, x |-> 0, y |-> 0, session_key |-> 2],
         [driver_number |-> 44, date |-> 130000, x |-> 300, y |-> 50, session_key |-> 2],
         [driver_number |-> 44, date |-> 310000, x |-> 500, y |-> 60, session_key |-> 2] }

\* rpm in hundreds
CarDataOf(s) ==
  IF s = 1
  THEN { [driver_number |-> 44, date |-> 2000, speed |-> 100, rpm |-> 90, throttle |-> 50,
          brake |-> 0, n_gear |-> 3, drs |-> 0],
         [driver_number |-> 44, date |-> 3000, speed |-> 201, rpm |-> 110, throttle |-> 100,
          brake |-> 0, n_gear |-> 4, drs |-> 12],
         [driver_number |-> 1, date |-> 2500, speed |-> 80, rpm |-> 70, throttle |-> 0,
          brake |-> 100, n_gear |-> 2, drs |-> 0] }
  ELSE IF s = LongSession THEN {}
  ELSE { [driver_number |-> 44, date |-> 112500, speed |-> 300, rpm |-> 120, throttle |-> 100,
          brake |-> 0, n_gear |-> 8, drs |-> 12] }

\* /laps, already in the order initSession's sort by date_start leaves them in;
\* in the long session driver 44 is lapped by driver 1
LapsOf(s) ==
  IF s = 1
  THEN << [date_start |-> 500, lap_number |-> 1, driver_number |-> 44],
          [date_start |-> 600, lap_number |-> 1, driver_number |-> 1],
          [date_start |-> 5000, lap_number |-> 2, driver_number |-> 44] >>
  ELSE IF s = LongSession
  THEN << [date_start |-> 100, lap_number |-> 1, driver_number |-> 1],
          [date_start |-> 200, lap_number |-> 1, driver_number |-> 44],
          [date_start |-> 1200, lap_number |-> 2, driver_number |-> 1],
          [date_start |-> 2200, lap_number |-> 3, driver_number |-> 1],
          [date_start |-> 2700, lap_number |-> 2, driver_number |-> 44] >>
  ELSE << [date_start |-> 100500, lap_number |-> 1, driver_number |-> 44],
          [date_start |-> 300000, lap_number |-> 2, driver_number |-> 44] >>

\* /race_control, already in the order the sort by date leaves it in
RaceControlOf(s) ==
  IF s = 1
  THEN << [date |-> 0, message |-> "GREEN"], [date |-> 2500, message |-> "YELLOW"] >>
  ELSE IF s = LongSession THEN << >>
  ELSE << [date |-> 112000, message |-> "GREEN"], [date |-> 300000, message |-> "SC"] >>

\* /team_radio, already in the order the sort by date leaves it in
TeamRadioOf(s) ==
  IF s = 1
  THEN << [date |-> 1500, driver_number |-> 44], [date |-> 1500, driver_number |-> 1],
          [date |-> 4000, driver_number |-> 44] >>
  ELSE IF s = LongSession THEN << >>
  ELSE << [date |-> 200000, driver_number |-> 44] >>

\* /position, already in the order the sort by date leaves it in: in session 1
\* driver 1 holds first place from the start and driver 44 is reported over
\* and over behind
PositionsOf(s) ==
  IF s = 1
  THEN << [date |-> 10, driver_number |-> 1, position |-> 1],
          [date |-> 20, driver_number |-> 44, position |-> 2],
          [date |-> 2500, driver_number |-> 44, position |-> 1],
          [date |-> 2500, driver_number |-> 1, position |-> 2] >>
  ELSE IF s = LongSession
  THEN [i \in 1..(positionWindow + 2) |->
          IF i = 1 THEN [date |-> 10, driver_number |-> 1, position |-> 1]
          ELSE [date |-> 19 + i, driver_number |-> 44, position |-> 2]]
  ELSE << [date |-> 100500, driver_number |-> 44, position |-> 1] >>

\* /intervals, already in the order the sort by date leaves it in
IntervalsOf(s) ==
  IF s = 2
  THEN << [date |-> 100500, driver_number |-> 44, interval |-> 0] >>
  ELSE << [date |-> 10, driver_number |-> 1, interval |-> 0],
          [date |-> 400, driver_number |-> 44, interval |-> 1200],
          [date |-> 800, driver_number |-> 44, interval |-> 1500] >>

\* ---------------------------------------------------------------- helpers
Max(a, b) == IF a >= b THEN a ELSE b
Min(a, b) == IF a <= b THEN a ELSE b

\* the sequences that enumerate a finite set, each element once
Orders(S) ==
  { f \in [1..Cardinality(S) -> S] : \A a \in S : \E i \in 1..Cardinality(S) : f[i] = a }

\* the samples of sequence s that belong to driver d, in order
RECURSIVE SelectOf(_, _)
SelectOf(s, d) ==
  IF s = << >> THEN << >>
  ELSE IF Head(s).driver_number = d THEN << Head(s) >> \o SelectOf(Tail(s), d)
       ELSE SelectOf(Tail(s), d)

\* Array.prototype.sort((a, b) => a.timestamp - b.timestamp): stable insertion
RECURSIVE InsertByTime(_, _)
InsertByTime(sorted, e) ==
  IF sorted = << >> THEN << e >>
  ELSE IF Head(sorted).timestamp <= e.timestamp
       THEN << Head(sorted) >> \o InsertByTime(Tail(sorted), e)
       ELSE << e >> \o sorted

RECURSIVE SortByTime(_)
SortByTime(s) ==
  IF s = << >> THEN << >>
  ELSE InsertByTime(SortByTime(SubSeq(s, 1, Len(s) - 1)), s[Len(s)])

\* the search loop taking only elements with time < targetTime
RECURSIVE fibLoopStrict(_, _, _, _, _)
fibLoopStrict(times, targetTime, low, high, result) ==
  IF low <= high
  THEN LET mid == (low + high) \div 2
       IN IF times[mid] < targetTime
          THEN fibLoopStrict(times, targetTime, mid + 1, high, mid)
          ELSE fibLoopStrict(times, targetTime, low, mid - 1, result)
  ELSE result

\* findIndexBefore: binary search for the last element with time <= targetTime.
\* Indices are 1-based here; the result is 0 where the code returns -1.
RECURSIVE fibLoop(_, _, _, _, _)
fibLoop(times, targetTime, low, high, result) ==
  IF low <= high
  THEN LET mid == (low + high) \div 2
       IN IF times[mid] <= targetTime
          THEN fibLoop(times, targetTime, mid + 1, high, mid)
          ELSE fibLoop(times, targetTime, low, mid - 1, result)
  ELSE result

findIndexBefore(times, targetTime) == fibLoop(times, targetTime, 1, Len(times), 0)

TimesOf(buf) == [i \in 1..Len(buf) |-> buf[i].timestamp]
DatesOf(arr) == [i \in 1..Len(arr) |-> arr[i].date]
StartsOf(arr) == [i \in 1..Len(arr) |-> arr[i].date_start]

\* a number as the fraction num/den (den > 0): JavaScript numbers that are
\* not integers are kept exact
Whole(a) == [num |-> a, den |-> 1]
\* the blend with the ratio measured back from the next sample
LerpFromNext(a, b, tPrev, tNext, timeMs) ==
  [num |-> a * (tNext - tPrev) + (b - a) * (tNext - timeMs), den |-> tNext - tPrev]
\* prev + (next - prev) * ratio with ratio = (timeMs - tPrev) / (tNext - tPrev)
Lerp(a, b, tPrev, tNext, timeMs) ==
  [num |-> a * (tNext - tPrev) + (b - a) * (timeMs - tPrev), den |-> tNext - tPrev]
\* Math.round: the nearest integer, halves upwards
MathRound(q) == (2 * q.num + q.den) \div (2 * q.den)

\* -------------------------------------------------------------------- state
VARIABLES
  selectedSession,      \* useState: session_key of the selected session, or NoSession
  drivers,              \* useState: driver numbers of the loaded session
  allLaps,              \* useState: laps of the loaded session, sorted by date_start
  isLoading,            \* useState: the loading overlay is up
  isPlaying,            \* useState
  currentTime,          \* useState: Date | null
  sessionStart,         \* useState: Date | null
  sessionEnd,           \* useState: Date | null
  playbackSpeed,        \* useState
  selectedDriver,       \* useState: driver number or NoDriver
  currentLap,           \* useState
  totalLaps,            \* useState
  currentCarLocations,  \* useState: the cars of the Snapshot
  currentCarData,       \* useState: << >> for null, else << telemetry >>
  currentRaceControl,   \* useState: the messages of the Snapshot
  currentTeamRadio,     \* useState: the team radio of the Snapshot
  currentPositions,     \* useState: the latest position entry of each driver found
  currentIntervals,     \* useState: the latest interval entry of each driver found
  currentTimeRef,       \* useRef
  isPlayingRef,         \* useRef
  isFetchingBuffer,     \* useRef: the fetch-in-flight flag
  bufferedUntilRef,     \* useRef: the watermark
  locationBufferRef,    \* useRef: driver -> buffered locations
  carDataBufferRef,     \* useRef: buffered telemetry of the focus driver
  fullSessionDataRef,   \* useRef: the whole-session streams
  requests,             \* fetchDynamicBuffer calls awaiting the data source
  chains,               \* the tick loops of the replay effect
  init,                 \* initSession: where it stands and the render it closed over
  pausePending,         \* a tick of the running frame called setIsPlaying(false)
  budget                \* operator actions and processed frames left

vars == << selectedSession, drivers, allLaps, isLoading, isPlaying, currentTime, sessionStart,
           sessionEnd, playbackSpeed, selectedDriver, currentLap, totalLaps,
           currentCarLocations, currentCarData, currentRaceControl, currentTeamRadio,
           currentPositions, currentIntervals,
           currentTimeRef, isPlayingRef, isFetchingBuffer, bufferedUntilRef, locationBufferRef,
           carDataBufferRef, fullSessionDataRef, requests, chains, init, pausePending,
           budget >>

AllDrivers == UNION { DriversOf(s) : s \in Sessions }
EmptyLocationBuffer == [d \in AllDrivers |-> << >>]
EmptySessionData == [raceControl |-> << >>, teamRadio |-> << >>,
                     positions |-> << >>, intervals |-> << >>]

\* what the functions of one render see of the component state
Closure(session, driver, speed, sEnd, drv, laps) ==
  [selectedSession |-> session, selectedDriver |-> driver, playbackSpeed |-> speed,
   sessionEnd |-> sEnd, drivers |-> drv, allLaps |-> laps]

Render == Closure(selectedSession, selectedDriver, playbackSpeed, sessionEnd, drivers, allLaps)

NoChain == [st |-> "dead", live |-> FALSE, elapsed |-> 0, clo |-> Closure(0, 0, 1, NoTime, {}, << >>)]

\* ------------------------------------------------------- updateViewState
Buffered(l) ==
  [driver_number |-> l.driver_number, date |-> l.date, x |-> l.x, y |-> l.y,
   session_key |-> l.session_key, timestamp |-> l.date]

BufferedCar(c) ==
  [driver_number |-> c.driver_number, date |-> c.date, speed |-> c.speed, rpm |-> c.rpm,
   throttle |-> c.throttle, brake |-> c.brake, n_gear |-> c.n_gear, drs |-> c.drs,
   timestamp |-> c.date]

\* the car blended between the first sample at or before the time and its
\* successor, whatever their timestamps
ActiveCarUnguarded(locs, timeMs) ==
  LET hits == { i \in 1..Len(locs) : locs[i].timestamp <= timeMs }
      idx == IF hits = {} THEN 0 ELSE CHOOSE i \in hits : \A j \in hits : i <= j
  IN IF idx # 0 /\ idx < Len(locs)
     THEN LET prev == locs[idx]
              next == locs[idx + 1]
          IN << [driver_number |-> prev.driver_number, timestamp |-> prev.timestamp,
                 x |-> Lerp(prev.x, next.x, prev.timestamp, next.timestamp, timeMs),
                 y |-> Lerp(prev.y, next.y, prev.timestamp, next.timestamp, timeMs)] >>
     ELSE << >>

\* 1. the car of one driver's buffer, << >> when it is not pushed
ActiveCar(locs, timeMs) ==
  LET idx == findIndexBefore(TimesOf(locs), timeMs)
  IN IF idx # 0 /\ idx < Len(locs)
     THEN LET prev == locs[idx]
              next == locs[idx + 1]
          IN IF next.timestamp > prev.timestamp
             THEN << [driver_number |-> prev.driver_number, timestamp |-> prev.timestamp,
                      x |-> Lerp(prev.x, next.x, prev.timestamp, next.timestamp, timeMs),
                      y |-> Lerp(prev.y, next.y, prev.timestamp, next.timestamp, timeMs)] >>
             ELSE << [driver_number |-> prev.driver_number, timestamp |-> prev.timestamp,
                      x |-> Whole(prev.x), y |-> Whole(prev.y)] >>
     ELSE << >>

ActiveCars(locBuf, timeMs) ==
  LET shown == { d \in AllDrivers : ActiveCar(locBuf[d], timeMs) # << >> }
  IN [d \in shown |-> ActiveCar(locBuf[d], timeMs)[1]]

\* 2. the telemetry of the selected driver
CarTelemetry(clo, cdBuffer, timeMs, before) ==
  IF clo.selectedDriver # NoDriver /\ Len(cdBuffer) > 0
  THEN LET idx == findIndexBefore(TimesOf(cdBuffer), timeMs)
       IN IF idx # 0 /\ idx < Len(cdBuffer)
          THEN LET prev == cdBuffer[idx]
                   next == cdBuffer[idx + 1]
                   tPrev == prev.timestamp
                   tNext == next.timestamp
               IN IF tNext > tPrev
                  THEN << [prev EXCEPT
                            !.speed = MathRound(Lerp(prev.speed, next.speed, tPrev, tNext, timeMs)),
                            !.rpm = MathRound(Lerp(prev.rpm, next.rpm, tPrev, tNext, timeMs)),
                            !.throttle = MathRound(Lerp(prev.throttle, next.throttle, tPrev, tNext, timeMs)),
                            !.brake = MathRound(Lerp(prev.brake, next.brake, tPrev, tNext, timeMs))] >>
                  ELSE << prev >>
          ELSE IF idx # 0 THEN << cdBuffer[idx] >> ELSE before
  ELSE << >>

\* Positions & Intervals: the loop goes from entry idx back over at most
\* positionWindow earlier entries and keeps the first entry it meets of each
\* driver, until as many drivers are found as the render has (the test
\* follows each entry, so one entry is always taken).  first holds the
\* indices the loop would keep if it ran to the end of the window, taken is
\* how many it keeps before it stops, and the result lists them in the order
\* the loop meets them.
latestPerDriver(arr, idx, n) ==
  IF idx = 0 THEN << >>
  ELSE LET window == Max(1, idx - positionWindow)..idx
           first == { i \in window :
                        \A j \in (i + 1)..idx : arr[j].driver_number # arr[i].driver_number }
           taken == Min(Max(1, n), Cardinality(first))
       IN [k \in 1..taken |->
             arr[CHOOSE i \in first : Cardinality({ j \in first : j > i }) = k - 1]]

\* updateViewState keeping the messages and the radio already revealed when
\* the time lies before them
updateViewStateCumulative(clo, timeMs, locBuf, cdBuffer, data, before) ==
  LET rcIdx == findIndexBefore(DatesOf(data.raceControl), timeMs)
      trIdx == findIndexBefore(DatesOf(data.teamRadio), timeMs)
      pIdx == findIndexBefore(DatesOf(data.positions), timeMs)
      iIdx == findIndexBefore(DatesOf(data.intervals), timeMs)
      lIdx == findIndexBefore(StartsOf(clo.allLaps), timeMs)
  IN [currentCarLocations |-> ActiveCars(locBuf, timeMs),
      currentCarData |-> CarTelemetry(clo, cdBuffer, timeMs, before.currentCarData),
      currentRaceControl |-> IF Len(before.currentRaceControl) > rcIdx
                             THEN before.currentRaceControl
                             ELSE SubSeq(data.raceControl, 1, rcIdx),
      currentTeamRadio |-> IF Len(before.currentTeamRadio) > trIdx
                           THEN before.currentTeamRadio
                           ELSE SubSeq(data.teamRadio, 1, trIdx),
      currentPositions |-> latestPerDriver(data.positions, pIdx, Cardinality(clo.drivers)),
      currentIntervals |-> latestPerDriver(data.intervals, iIdx, Cardinality(clo.drivers)),
      currentLap |-> IF lIdx # 0 THEN clo.allLaps[lIdx].lap_number ELSE 0]

\* the Snapshot the states hold after updateViewState(time), run by a function
\* of the render clo, over the buffers given
updateViewState(clo, timeMs, locBuf, cdBuffer, data, before) ==
  LET rcIdx == findIndexBefore(DatesOf(data.raceControl), timeMs)
      trIdx == findIndexBefore(DatesOf(data.teamRadio), timeMs)
      pIdx == findIndexBefore(DatesOf(data.positions), timeMs)
      iIdx == findIndexBefore(DatesOf(data.intervals), timeMs)
      lIdx == findIndexBefore(StartsOf(clo.allLaps), timeMs)
  IN [currentCarLocations |-> ActiveCars(locBuf, timeMs),
      currentCarData |-> CarTelemetry(clo, cdBuffer, timeMs, before.currentCarData),
      currentRaceControl |-> SubSeq(data.raceControl, 1, rcIdx),
      currentTeamRadio |-> SubSeq(data.teamRadio, 1, trIdx),
      currentPositions |-> latestPerDriver(data.positions, pIdx, Cardinality(clo.drivers)),
      currentIntervals |-> latestPerDriver(data.intervals, iIdx, Cardinality(clo.drivers)),
      currentLap |-> IF lIdx # 0 THEN clo.allLaps[lIdx].lap_number ELSE 0]

Snapshot ==
  [currentCarLocations |-> currentCarLocations, currentCarData |-> currentCarData,
   currentRaceControl |-> currentRaceControl,
   currentTeamRadio |-> currentTeamRadio, currentPositions |-> currentPositions,
   currentIntervals |-> currentIntervals, currentLap |-> currentLap]

\* ---------------------------------------------------- fetchDynamicBuffer
\* fetchDynamicBuffer aborting the requests in flight in favour of the new one
fetchDynamicBufferCancelling(clo, startTime, durationMs, cont, fetching, reqs) ==
  IF clo.selectedSession = NoSession
  THEN [issued |-> FALSE, fetching |-> fetching, requests |-> reqs]
  ELSE [issued |-> TRUE, fetching |-> TRUE,
        requests |-> << [startTime |-> startTime, durationMs |-> durationMs,
                         session_key |-> clo.selectedSession,
                         driver_number |-> clo.selectedDriver, cont |-> cont] >>]

\* fetchDynamicBuffer without its test of the fetch-in-flight flag
fetchDynamicBufferUnguarded(clo, startTime, durationMs, cont, fetching, reqs) ==
  IF clo.selectedSession = NoSession
  THEN [issued |-> FALSE, fetching |-> fetching, requests |-> reqs]
  ELSE [issued |-> TRUE, fetching |-> TRUE,
        requests |-> Append(reqs, [startTime |-> startTime, durationMs |-> durationMs,
                                   session_key |-> clo.selectedSession,
                                   driver_number |-> clo.selectedDriver, cont |-> cont])]

\* The call up to its await: the two guards, the flag and the requests sent.
\* cont says who awaits the call: [kind, chain].
fetchDynamicBuffer(clo, startTime, durationMs, cont, fetching, reqs) ==
  IF clo.selectedSession = NoSession \/ fetching
  THEN [issued |-> FALSE, fetching |-> fetching, requests |-> reqs]
  ELSE [issued |-> TRUE, fetching |-> TRUE,
        requests |-> Append(reqs, [startTime |-> startTime, durationMs |-> durationMs,
                                   session_key |-> clo.selectedSession,
                                   driver_number |-> clo.selectedDriver, cont |-> cont])]

\* what getLocations / getCarData can resolve to for a request: the samples
\* with startTime < date < endTime in any order, or nothing when fetchAPI
\* caught an error
LocationResults(r) ==
  Orders({ l \in LocationsOf(r.session_key) :
             l.date > r.startTime /\ l.date < r.startTime + r.durationMs }) \cup { << >> }

CarDataResults(r) ==
  IF r.driver_number = NoDriver THEN { << >> }
  ELSE Orders({ c \in CarDataOf(r.session_key) :
                  /\ c.driver_number = r.driver_number
                  /\ c.date > r.startTime /\ c.date < r.startTime + r.durationMs }) \cup { << >> }

RECURSIVE MapBuffered(_)
MapBuffered(locs) ==
  IF locs = << >> THEN << >> ELSE << Buffered(Head(locs)) >> \o MapBuffered(Tail(locs))

RECURSIVE MapBufferedCar(_)
MapBufferedCar(cd) ==
  IF cd = << >> THEN << >> ELSE << BufferedCar(Head(cd)) >> \o MapBufferedCar(Tail(cd))

\* Process Locations: each sample is pushed onto its driver's array
MergeLocations(locBuf, locs) ==
  [d \in AllDrivers |-> locBuf[d] \o SelectOf(MapBuffered(locs), d)]

\* the telemetry pushed and left in the order of arrival
MergeCarDataUnsorted(cdBuffer, carData) == cdBuffer \o MapBufferedCar(carData)

\* Process Car Data: pushed, then the buffer is sorted
MergeCarData(cdBuffer, carData) ==
  IF Len(carData) > 0 THEN SortByTime(cdBuffer \o MapBufferedCar(carData)) ELSE cdBuffer

\* the watermark set to the end of the range whatever it was
RaiseWatermarkTo(until, endTime) == endTime

\* bufferedUntilRef after a fetch: raised to the end of the range, never lowered
RaiseWatermark(until, endTime) == IF endTime > until THEN endTime ELSE until

RemoveAt(q, k) == SubSeq(q, 1, k - 1) \o SubSeq(q, k + 1, Len(q))

\* ------------------------------------------------------- the replay effect
\* useEffect(..., [isPlaying, playbackSpeed, sessionEnd, selectedDriver]) on a
\* render where a dependency changed: the cleanup of the previous run cancels
\* its pending frame (a tick of it that is awaiting a fetch is out of reach),
\* then a new loop starts when isPlaying.
Cleanup(chs) ==
  [i \in 1..MaxChains |->
     IF chs[i].live
     THEN IF chs[i].st = "scheduled" THEN NoChain ELSE [chs[i] EXCEPT !.live = FALSE]
     ELSE chs[i]]

FreeSlot(chs) == CHOOSE i \in 1..MaxChains : chs[i].st = "dead" /\ \A j \in 1..(i - 1) : chs[j].st # "dead"

ReplayEffect(chs, playing, clo) ==
  IF playing
  THEN [Cleanup(chs) EXCEPT ![FreeSlot(Cleanup(chs))] =
          [st |-> "scheduled", live |-> TRUE, elapsed |-> 0, clo |-> clo]]
  ELSE Cleanup(chs)

\* the bound on chains leaves room for the loop the effect starts
HasRoom(chs, playing) == playing => \E i \in 1..MaxChains : Cleanup(chs)[i].st = "dead"

\* --------------------------------------------------------------------- tick
bufferThreshold(speed) == Max(20000, 5000 * speed)
\* a chunk of the same size at every speed
fetchSizeFixed(speed) == 30000

fetchSize(speed) == Max(30000, 10000 * speed)

\* new Date(currentTimeRef.current.getTime() + delta * playbackSpeed), delta in us
newTimeOf(time, delta, speed) == time + (delta * speed) \div 1000

\* the delta that makes a tick do its work
Processed(delta) == delta > 32000

\* the end test with >= for >
PastEndInclusive(newTime, sEnd) == sEnd # NoTime /\ newTime >= sEnd

\* a tick finds its new time past the end of the session
PastEnd(newTime, sEnd) == sEnd # NoTime /\ newTime > sEnd

\* One invocation of chain i's tick by the frame callback, up to its await or
\* its end.  The result is what it leaves: the chains, the two copies of the
\* current time, the Snapshot, the flag, the requests, and whether it called
\* setIsPlaying(false).
tick(i) ==
  LET c == chains[i]
      delta == c.elapsed
      speed == c.clo.playbackSpeed
      newTime == newTimeOf(currentTimeRef, delta, speed)
      timeToBufferEnd == bufferedUntilRef - newTime
      same == [chains |-> chains, currentTimeRef |-> currentTimeRef,
               currentTime |-> currentTime, snap |-> Snapshot,
               fetching |-> isFetchingBuffer, requests |-> requests, pause |-> FALSE]
      f == IF timeToBufferEnd < bufferThreshold(speed) /\ ~isFetchingBuffer
           THEN fetchDynamicBuffer(c.clo, bufferedUntilRef, fetchSize(speed),
                                   [kind |-> "tick", chain |-> i], isFetchingBuffer, requests)
           ELSE [issued |-> FALSE, fetching |-> isFetchingBuffer, requests |-> requests]
  IN IF ~isPlayingRef \/ currentTimeRef = NoTime
     THEN [same EXCEPT !.chains[i] = NoChain]
     ELSE IF Processed(delta)
          THEN IF PastEnd(newTime, c.clo.sessionEnd)
               THEN [same EXCEPT !.pause = TRUE, !.chains[i] = NoChain]
               ELSE [chains |-> [chains EXCEPT ![i].elapsed = 0,
                                               ![i].st = IF f.issued THEN "suspended"
                                                         ELSE "scheduled"],
                     currentTimeRef |-> newTime,
                     currentTime |-> newTime,
                     snap |-> updateViewState(c.clo, newTime, locationBufferRef,
                                              carDataBufferRef, fullSessionDataRef, Snapshot),
                     fetching |-> f.fetching,
                     requests |-> f.requests,
                     pause |-> FALSE]
          ELSE [same EXCEPT !.chains[i].st = "scheduled"]

\* ------------------------------------------------------------------ actions
\* the state of the component after its first render
Constructed ==
  /\ selectedSession = NoSession
  /\ drivers = {}
  /\ allLaps = << >>
  /\ isLoading = FALSE
  /\ isPlaying = FALSE
  /\ currentTime = NoTime
  /\ sessionStart = NoTime
  /\ sessionEnd = NoTime
  /\ playbackSpeed = 1
  /\ selectedDriver = NoDriver
  /\ currentLap = 0
  /\ totalLaps = 0
  /\ currentCarLocations = << >>
  /\ currentCarData = << >>
  /\ currentRaceControl = << >>
  /\ currentTeamRadio = << >>
  /\ currentPositions = << >>
  /\ currentIntervals = << >>
  /\ currentTimeRef = NoTime
  /\ isPlayingRef = FALSE
  /\ isFetchingBuffer = FALSE
  /\ bufferedUntilRef = 0
  /\ locationBufferRef = EmptyLocationBuffer
  /\ carDataBufferRef = << >>
  /\ fullSessionDataRef = EmptySessionData
  /\ requests = << >>
  /\ chains = [i \in 1..MaxChains |-> NoChain]
  /\ init = [pc |-> "idle", clo |-> NoChain.clo]
  /\ pausePending = FALSE

Init == Constructed /\ budget = MaxSteps

Due == { i \in 1..MaxChains : chains[i].st = "due" }
\* the chain whose callback the running frame invokes next
DueChain == CHOOSE i \in Due : \A j \in Due : i <= j
\* no frame is running its callbacks
Idle == Due = {}

\* one operator action or processed frame out of the bound
Spend == budget > 0 /\ budget' = budget - 1

\* The host delivers an animation frame f us after the previous one: wall-clock
\* time has passed for every loop, and the callbacks of the loops with a
\* pending frame are about to run.
FrameBody(f) ==
  /\ Idle
  /\ \E i \in 1..MaxChains : chains[i].st # "dead"
  /\ chains' = [i \in 1..MaxChains |->
                  IF chains[i].st = "dead" THEN chains[i]
                  ELSE [chains[i] EXCEPT !.elapsed = @ + f,
                                         !.st = IF @ = "scheduled" THEN "due" ELSE @]]
  /\ UNCHANGED << selectedSession, drivers, allLaps, isLoading, isPlaying, currentTime,
                  sessionStart, sessionEnd, playbackSpeed, selectedDriver, currentLap,
                  totalLaps, currentCarLocations, currentCarData, currentRaceControl,
                  currentTeamRadio,
                  currentPositions, currentIntervals,
                  currentTimeRef, isPlayingRef, isFetchingBuffer, bufferedUntilRef,
                  locationBufferRef, carDataBufferRef, fullSessionDataRef, requests, init,
                  pausePending >>

\* the frame makes some tick do its work
Processing(f) ==
  \E i \in 1..MaxChains : chains[i].st = "scheduled" /\ Processed(chains[i].elapsed + f)

Frame(f) ==
  /\ \A i \in 1..MaxChains : chains[i].st # "dead" => chains[i].elapsed + f <= MaxElapsed
  /\ IF Processing(f) THEN Spend ELSE UNCHANGED budget
  /\ FrameBody(f)

\* The frame invokes the callback of the next loop it has to serve.  Once the
\* last callback has run, React renders the setIsPlaying(false) of the frame
\* and the replay effect runs again.
Tick ==
  LET i == DueChain
      m == tick(i)
      last == Due = {i}
      pause == m.pause \/ pausePending
      stops == last /\ pause /\ isPlaying
  IN /\ ~Idle
     /\ currentTimeRef' = m.currentTimeRef
     /\ currentTime' = m.currentTime
     /\ currentCarLocations' = m.snap.currentCarLocations
     /\ currentCarData' = m.snap.currentCarData
     /\ currentRaceControl' = m.snap.currentRaceControl
     /\ currentTeamRadio' = m.snap.currentTeamRadio
     /\ currentPositions' = m.snap.currentPositions
     /\ currentIntervals' = m.snap.currentIntervals
     /\ currentLap' = m.snap.currentLap
     /\ isFetchingBuffer' = m.fetching
     /\ requests' = m.requests
     /\ pausePending' = IF last THEN FALSE ELSE pause
     /\ isPlaying' = IF stops THEN FALSE ELSE isPlaying
     /\ isPlayingRef' = IF stops THEN FALSE ELSE isPlayingRef
     /\ chains' = IF stops THEN Cleanup(m.chains) ELSE m.chains
     /\ UNCHANGED << selectedSession, drivers, allLaps, isLoading, sessionStart, sessionEnd,
                     playbackSpeed, selectedDriver, totalLaps, bufferedUntilRef,
                     locationBufferRef, carDataBufferRef, fullSessionDataRef, init, budget >>

\* The operator picks session s in the session selector: the render with the
\* new selectedSession runs the session effect, i.e. initSession up to its
\* first await (the reset).  initSession keeps the functions of that render.
SelectSession(s) ==
  /\ Idle
  /\ Spend
  /\ ~isLoading
  /\ s # selectedSession
  /\ selectedSession' = s
  /\ init' = [pc |-> "loading",
              clo |-> Closure(s, selectedDriver, playbackSpeed, sessionEnd, drivers, allLaps)]
  /\ isLoading' = TRUE
  /\ isPlaying' = FALSE
  /\ isPlayingRef' = FALSE
  /\ locationBufferRef' = EmptyLocationBuffer
  /\ carDataBufferRef' = << >>
  /\ fullSessionDataRef' = EmptySessionData
  /\ bufferedUntilRef' = 0
  /\ currentCarLocations' = << >>
  /\ currentRaceControl' = << >>
  /\ currentTeamRadio' = << >>
  /\ currentPositions' = << >>
  /\ currentIntervals' = << >>
  /\ currentCarData' = << >>
  /\ selectedDriver' = NoDriver
  /\ totalLaps' = 0
  /\ currentLap' = 0
  /\ chains' = ReplayEffect(chains, FALSE, Render)
  /\ UNCHANGED << drivers, allLaps, currentTime, sessionStart, sessionEnd, playbackSpeed,
                  currentTimeRef, isFetchingBuffer, requests, pausePending >>

MaxLapNumber(laps) == CHOOSE n \in { laps[i].lap_number : i \in 1..Len(laps) } :
                         \A i \in 1..Len(laps) : laps[i].lap_number <= n

\* initSession from the arrival of the session's data (steps 1 to 3) up to the
\* await of the initial buffer fetch, and beyond it when that call returns at
\* once.
InitLoaded ==
  LET s == init.clo.selectedSession
      startDate == date_start(s)
      f == fetchDynamicBuffer(init.clo, startDate, 30000, [kind |-> "init", chain |-> 0],
                              isFetchingBuffer, requests)
      snap == updateViewState(init.clo, startDate, locationBufferRef, carDataBufferRef,
                              [raceControl |-> RaceControlOf(s),
                               teamRadio |-> TeamRadioOf(s),
                                   positions |-> PositionsOf(s), intervals |-> IntervalsOf(s)], Snapshot)
  IN /\ Idle
     /\ init.pc = "loading"
     /\ drivers' = DriversOf(s)
     /\ allLaps' = LapsOf(s)
     /\ totalLaps' = IF Len(LapsOf(s)) > 0 THEN MaxLapNumber(LapsOf(s)) ELSE totalLaps
     /\ fullSessionDataRef' = [raceControl |-> RaceControlOf(s), teamRadio |-> TeamRadioOf(s),
         positions |-> PositionsOf(s), intervals |-> IntervalsOf(s)]
     /\ sessionStart' = startDate
     /\ sessionEnd' = date_end(s)
     /\ currentTime' = startDate
     /\ currentTimeRef' = startDate
     /\ bufferedUntilRef' = startDate
     /\ isFetchingBuffer' = f.fetching
     /\ requests' = f.requests
     /\ IF f.issued
        THEN /\ init' = [init EXCEPT !.pc = "buffering"]
             /\ UNCHANGED << isLoading, currentCarLocations, currentCarData,
                             currentRaceControl, currentTeamRadio, currentPositions,
                             currentIntervals, currentLap >>
        ELSE /\ init' = [init EXCEPT !.pc = "idle"]
             /\ isLoading' = FALSE
             /\ currentCarLocations' = snap.currentCarLocations
             /\ currentCarData' = snap.currentCarData
             /\ currentRaceControl' = snap.currentRaceControl
             /\ currentTeamRadio' = snap.currentTeamRadio
             /\ currentPositions' = snap.currentPositions
             /\ currentIntervals' = snap.currentIntervals
             /\ currentLap' = snap.currentLap
     /\ HasRoom(chains, isPlaying)
     /\ chains' = ReplayEffect(chains, isPlaying,
                               Closure(selectedSession, selectedDriver, playbackSpeed,
                                       date_end(s), DriversOf(s), LapsOf(s)))
     /\ UNCHANGED << selectedSession, isPlaying, playbackSpeed, selectedDriver,
                     isPlayingRef, locationBufferRef, carDataBufferRef, pausePending, budget >>

\* the flag left set when both requests of the fetch came back empty
flagLeftOnFailure(locs, carData) == locs = << >> /\ carData = << >>

\* finally { isFetchingBuffer.current = false }: the flag after the fetch,
\* whatever getLocations and getCarData resolved to
flagAfterFetch(locs, carData) == FALSE

\* The data source answers request k: fetchDynamicBuffer resumes after its
\* await, merges, raises the watermark, clears the flag, and whoever awaited
\* the call resumes: a tick asks for its next frame, initSession finishes.
FetchComplete(k, locs, carData) ==
  LET r == requests[k]
      endTime == r.startTime + r.durationMs
      locBuf == MergeLocations(locationBufferRef, locs)
      cdBuffer == MergeCarData(carDataBufferRef, carData)
      snap == updateViewState(init.clo, date_start(init.clo.selectedSession), locBuf,
                              cdBuffer, fullSessionDataRef, Snapshot)
  IN /\ Idle
     /\ locationBufferRef' = locBuf
     /\ carDataBufferRef' = cdBuffer
     /\ bufferedUntilRef' = RaiseWatermark(bufferedUntilRef, endTime)
     /\ isFetchingBuffer' = flagAfterFetch(locs, carData)
     /\ requests' = RemoveAt(requests, k)
     /\ chains' = IF r.cont.kind = "tick"
                  THEN [chains EXCEPT ![r.cont.chain].st = "scheduled"]
                  ELSE chains
     /\ IF r.cont.kind = "init"
        THEN /\ init' = [init EXCEPT !.pc = "idle"]
             /\ isLoading' = FALSE
             /\ currentCarLocations' = snap.currentCarLocations
             /\ currentCarData' = snap.currentCarData
             /\ currentRaceControl' = snap.currentRaceControl
             /\ currentTeamRadio' = snap.currentTeamRadio
             /\ currentPositions' = snap.currentPositions
             /\ currentIntervals' = snap.currentIntervals
             /\ currentLap' = snap.currentLap
        ELSE UNCHANGED << init, isLoading, currentCarLocations, currentCarData,
                          currentRaceControl, currentTeamRadio, currentPositions,
                          currentIntervals, currentLap >>
     /\ UNCHANGED << selectedSession, drivers, allLaps, isPlaying, currentTime, sessionStart,
                     sessionEnd, playbackSpeed, selectedDriver, totalLaps, currentTimeRef,
                     isPlayingRef, fullSessionDataRef, pausePending, budget >>

\* onPlayPause: the play/pause button, disabled while no session is selected
PlayPause ==
  /\ Idle
  /\ Spend
  /\ ~isLoading
  /\ selectedSession # NoSession
  /\ isPlaying' = ~isPlaying
  /\ isPlayingRef' = ~isPlaying
  /\ HasRoom(chains, ~isPlaying)
  /\ chains' = ReplayEffect(chains, ~isPlaying, Render)
  /\ UNCHANGED << selectedSession, drivers, allLaps, isLoading, currentTime, sessionStart,
                  sessionEnd, playbackSpeed, selectedDriver, currentLap, totalLaps,
                  currentCarLocations, currentCarData, currentRaceControl, currentTeamRadio,
                  currentPositions, currentIntervals,
                  currentTimeRef,
                  isFetchingBuffer, bufferedUntilRef, locationBufferRef, carDataBufferRef,
                  fullSessionDataRef, requests, init, pausePending >>

\* onSpeedChange: the speed selector
SetSpeed(speed) ==
  /\ Idle
  /\ Spend
  /\ ~isLoading
  /\ speed # playbackSpeed
  /\ playbackSpeed' = speed
  /\ isPlayingRef' = isPlaying
  /\ HasRoom(chains, isPlaying)
  /\ chains' = ReplayEffect(chains, isPlaying, [Render EXCEPT !.playbackSpeed = speed])
  /\ UNCHANGED << selectedSession, drivers, allLaps, isLoading, isPlaying, currentTime,
                  sessionStart, sessionEnd, selectedDriver, currentLap, totalLaps,
                  currentCarLocations, currentCarData, currentRaceControl, currentTeamRadio,
                  currentPositions, currentIntervals,
                  currentTimeRef,
                  isFetchingBuffer, bufferedUntilRef, locationBufferRef, carDataBufferRef,
                  fullSessionDataRef, requests, init, pausePending >>

\* handleProgressBarClick: the click at pct thousandths of the bar's width
seekTimeMs(pct) ==
  LET percentage == Max(0, Min(1000, pct))
      totalDuration == sessionEnd - sessionStart
  IN sessionStart + (totalDuration * percentage) \div 1000

\* the re-buffer test with both comparisons inclusive
RebuffersInclusive(time, until) == time >= until \/ time <= until - 600000

\* the test of handleSeek for a seek that forces a re-buffer
Rebuffers(time, until) == time > until \/ time < until - 600000

\* handleSeek leaving the Snapshot to the next tick
handleSeekDeferred(time) ==
  LET f == fetchDynamicBuffer(Render, time, 30000, [kind |-> "seek", chain |-> 0],
                              isFetchingBuffer, requests)
  IN /\ currentTimeRef' = time
     /\ currentTime' = time
     /\ IF Rebuffers(time, bufferedUntilRef)
        THEN /\ locationBufferRef' = EmptyLocationBuffer
             /\ carDataBufferRef' = << >>
             /\ bufferedUntilRef' = time
             /\ isFetchingBuffer' = f.fetching
             /\ requests' = f.requests
        ELSE UNCHANGED << locationBufferRef, carDataBufferRef, bufferedUntilRef,
                          isFetchingBuffer, requests >>
     /\ UNCHANGED << selectedSession, drivers, allLaps, isLoading, isPlaying, sessionStart,
                     sessionEnd, playbackSpeed, selectedDriver, totalLaps, isPlayingRef,
                     fullSessionDataRef, chains, init, pausePending, currentCarLocations,
                     currentCarData, currentRaceControl, currentTeamRadio, currentPositions,
                     currentIntervals, currentLap >>

handleSeek(time) ==
  LET snap == updateViewState(Render, time, locationBufferRef, carDataBufferRef,
                              fullSessionDataRef, Snapshot)
      f == fetchDynamicBuffer(Render, time, 30000, [kind |-> "seek", chain |-> 0],
                              isFetchingBuffer, requests)
  IN /\ currentTimeRef' = time
     /\ currentTime' = time
     /\ currentCarLocations' = snap.currentCarLocations
     /\ currentCarData' = snap.currentCarData
     /\ currentRaceControl' = snap.currentRaceControl
     /\ currentTeamRadio' = snap.currentTeamRadio
     /\ currentPositions' = snap.currentPositions
     /\ currentIntervals' = snap.currentIntervals
     /\ currentLap' = snap.currentLap
     /\ IF Rebuffers(time, bufferedUntilRef)
        THEN /\ locationBufferRef' = EmptyLocationBuffer
             /\ carDataBufferRef' = << >>
             /\ bufferedUntilRef' = time
             /\ isFetchingBuffer' = f.fetching
             /\ requests' = f.requests
        ELSE UNCHANGED << locationBufferRef, carDataBufferRef, bufferedUntilRef,
                          isFetchingBuffer, requests >>
     /\ UNCHANGED << selectedSession, drivers, allLaps, isLoading, isPlaying, sessionStart,
                     sessionEnd, playbackSpeed, selectedDriver, totalLaps, isPlayingRef,
                     fullSessionDataRef, chains, init, pausePending >>

Seek(pct) ==
  /\ Idle
  /\ Spend
  /\ ~isLoading
  /\ sessionStart # NoTime /\ sessionEnd # NoTime
  /\ handleSeek(seekTimeMs(pct))

\* onSelectDriver: a click on a driver of the list.  The function runs in the
\* render before the click, so the fetchDynamicBuffer it calls is the one of
\* that render.
toggleDriverSelection(driverNumber) ==
  LET f == IF currentTimeRef # NoTime
           THEN fetchDynamicBuffer(Render, currentTimeRef, 10000,
                                   [kind |-> "toggle", chain |-> 0], isFetchingBuffer, requests)
           ELSE [issued |-> FALSE, fetching |-> isFetchingBuffer, requests |-> requests]
  IN /\ Idle
     /\ Spend
     /\ ~isLoading
     /\ driverNumber \in drivers
     /\ carDataBufferRef' = << >>
     /\ IF selectedDriver # driverNumber
        THEN /\ selectedDriver' = driverNumber
             /\ isFetchingBuffer' = f.fetching
             /\ requests' = f.requests
             /\ UNCHANGED currentCarData
        ELSE /\ selectedDriver' = NoDriver
             /\ currentCarData' = << >>
             /\ UNCHANGED << isFetchingBuffer, requests >>
     /\ isPlayingRef' = isPlaying
     /\ HasRoom(chains, isPlaying)
     /\ chains' = ReplayEffect(chains, isPlaying,
                               [Render EXCEPT !.selectedDriver = selectedDriver'])
     /\ UNCHANGED << selectedSession, drivers, allLaps, isLoading, isPlaying, currentTime,
                     sessionStart, sessionEnd, playbackSpeed, currentLap, totalLaps,
                     currentCarLocations, currentRaceControl, currentTeamRadio,
                     currentPositions, currentIntervals,
                     currentTimeRef, bufferedUntilRef,
                     locationBufferRef, fullSessionDataRef, init, pausePending >>

\* onYearChange: the year effect deselects the meeting and the session
YearChange ==
  /\ Idle
  /\ Spend
  /\ ~isLoading
  /\ selectedSession # NoSession
  /\ selectedSession' = NoSession
  /\ UNCHANGED << drivers, allLaps, isLoading, isPlaying, currentTime, sessionStart,
                  sessionEnd, playbackSpeed, selectedDriver, currentLap, totalLaps,
                  currentCarLocations, currentCarData, currentRaceControl, currentTeamRadio,
                  currentPositions, currentIntervals,
                  currentTimeRef,
                  isPlayingRef, isFetchingBuffer, bufferedUntilRef, locationBufferRef,
                  carDataBufferRef, fullSessionDataRef, requests, chains, init, pausePending >>

Next ==
  \/ \E s \in Sessions : SelectSession(s)
  \/ InitLoaded
  \/ \E k \in 1..Len(requests) :
       \E locs \in LocationResults(requests[k]), carData \in CarDataResults(requests[k]) :
         FetchComplete(k, locs, carData)
  \/ \E f \in FrameDeltas : Frame(f)
  \/ Tick
  \/ PlayPause
  \/ \E speed \in Speeds : SetSpeed(speed)
  \/ \E pct \in Pcts : Seek(pct)
  \/ \E d \in AllDrivers : toggleDriverSelection(d)
  \/ YearChange

Spec == Init /\ [][Next]_vars

\* The behaviours in which a loop outlives the render that started it: the
\* operator changes session and speed, plays, and seeks to the end of the bar.
InitStale == Constructed /\ budget = MaxStaleSteps

NextStale ==
  \/ \E s \in Sessions : SelectSession(s)
  \/ InitLoaded
  \/ \E k \in 1..Len(requests) :
       \E locs \in LocationResults(requests[k]), carData \in CarDataResults(requests[k]) :
         FetchComplete(k, locs, carData)
  \/ \E f \in FrameDeltas : Frame(f)
  \/ Tick
  \/ PlayPause
  \/ \E speed \in Speeds : SetSpeed(speed)
  \/ \E pct \in StalePcts : Seek(pct)

SpecStale == InitStale /\ [][NextStale]_vars

\* ------------------------------------------------- uninterrupted playback
\* Session 1 is loaded, its initial buffer fetch has been answered, the
\* operator has chosen a speed and pressed play.
LiveStartAt(s, speed) ==
    \E locs \in LocationResults([startTime |-> date_start(s), durationMs |-> 30000,
                                 session_key |-> s]) :
      LET clo0 == Closure(s, NoDriver, 1, NoTime, {}, << >>)
          locBuf == MergeLocations(EmptyLocationBuffer, locs)
          data == [raceControl |-> RaceControlOf(s), teamRadio |-> TeamRadioOf(s),
              positions |-> PositionsOf(s), intervals |-> IntervalsOf(s)]
          snap == updateViewState(clo0, date_start(s), locBuf, << >>, data,
                                  [currentCarLocations |-> << >>, currentCarData |-> << >>,
                                   currentRaceControl |-> << >>, currentTeamRadio |-> << >>,
                                   currentPositions |-> << >>, currentIntervals |-> << >>,
                                 currentLap |-> 0])
      IN /\ selectedSession = s
         /\ drivers = DriversOf(s)
         /\ allLaps = LapsOf(s)
         /\ isLoading = FALSE
         /\ isPlaying = TRUE
         /\ currentTime = date_start(s)
         /\ sessionStart = date_start(s)
         /\ sessionEnd = date_end(s)
         /\ playbackSpeed = speed
         /\ selectedDriver = NoDriver
         /\ currentLap = snap.currentLap
         /\ totalLaps = MaxLapNumber(LapsOf(s))
         /\ currentCarLocations = snap.currentCarLocations
         /\ currentCarData = snap.currentCarData
         /\ currentRaceControl = snap.currentRaceControl
         /\ currentTeamRadio = snap.currentTeamRadio
         /\ currentPositions = snap.currentPositions
         /\ currentIntervals = snap.currentIntervals
         /\ currentTimeRef = date_start(s)
         /\ isPlayingRef = TRUE
         /\ isFetchingBuffer = FALSE
         /\ bufferedUntilRef = date_start(s) + 30000
         /\ locationBufferRef = locBuf
         /\ carDataBufferRef = << >>
         /\ fullSessionDataRef = data
         /\ requests = << >>
         /\ chains = [i \in 1..MaxChains |->
                        IF i = 1
                        THEN [st |-> "scheduled", live |-> TRUE, elapsed |-> 0,
                              clo |-> Closure(s, NoDriver, speed, date_end(s), DriversOf(s),
                                              LapsOf(s))]
                        ELSE NoChain]
         /\ init = [pc |-> "idle", clo |-> clo0]
         /\ pausePending = FALSE

LiveStartOf(s) == \E speed \in Speeds : LiveStartAt(s, speed)

LiveStart == LiveStartOf(1)

InitLive == LiveStart /\ budget = 0

\* a frame of the host while nobody touches the controls; a fetch is answered
\* within MaxWait us
LiveFrame(f) ==
  /\ \A i \in 1..MaxChains :
       /\ chains[i].st = "suspended" => chains[i].elapsed + f <= MaxWait
       /\ chains[i].st = "scheduled" => chains[i].elapsed <= MaxWait
  /\ FrameBody(f)
  /\ UNCHANGED budget

Answered ==
  \E k \in 1..Len(requests) :
    \E locs \in LocationResults(requests[k]), carData \in CarDataResults(requests[k]) :
      FetchComplete(k, locs, carData)

NextLive ==
  \/ \E f \in LiveFrames : LiveFrame(f)
  \/ Tick
  \/ Answered

\* frames keep coming, callbacks run, and every fetch is answered
SpecLive ==
  /\ InitLive
  /\ [][NextLive]_vars
  /\ WF_vars(\E f \in LiveFrames : LiveFrame(f))
  /\ WF_vars(Tick)
  /\ WF_vars(Answered)

\* --------------------------------------------------- the long session
\* the long session loaded and playing, nobody touching the controls
InitLong == LiveStartOf(LongSession) /\ budget = 0

SpecLong == InitLong /\ [][NextLive]_vars

\* ------------------------------------------------ every speed on offer
\* session 1 loaded and playing at one of the speeds of the selector
InitSpeeds == (\E speed \in SpeedOptions : LiveStartAt(1, speed)) /\ budget = 0

SpecSpeeds == InitSpeeds /\ [][NextLive]_vars

\* ------------------------------------------------- the Snapshot of a seek
\* Session 1 loaded and paused, its first 30 s buffered, with the buffer of
\* driver 44 being any sequence of up to MaxLen samples: sorted or not (the
\* samples of a fetch are pushed in the order they arrive), with or without
\* equal timestamps (a range fetched twice is pushed twice).  The telemetry
\* buffer holds the matching samples when 44 is in focus, sorted as line 299
\* leaves it.
ViewTimes == {1000, 2000, 3000}
ViewXs == {0, 100}
ViewPcts == {50, 100, 150, 200, 250, 300}

ViewLocations ==
  { [driver_number |-> 44, date |-> t, x |-> x, y |-> (2 * x) \div 5, session_key |-> 1] :
      t \in ViewTimes, x \in ViewXs }

\* the telemetry sample of the instant of a location sample
ViewCarData(l) ==
  [driver_number |-> l.driver_number, date |-> l.date,
   speed |-> IF l.x = 0 THEN 100 ELSE 201, rpm |-> IF l.x = 0 THEN 90 ELSE 110,
   throttle |-> IF l.x = 0 THEN 50 ELSE 100, brake |-> 0,
   n_gear |-> IF l.x = 0 THEN 3 ELSE 4, drs |-> IF l.x = 0 THEN 0 ELSE 12]

ViewBuffers == UNION { [1..n -> ViewLocations] : n \in 0..MaxLen }

InitView ==
  \E locs \in ViewBuffers, d \in {NoDriver, 44} :
    LET clo0 == Closure(1, NoDriver, 1, NoTime, {}, << >>)
        locBuf == MergeLocations(EmptyLocationBuffer, locs)
        cdBuffer == IF d = NoDriver THEN << >>
                    ELSE SortByTime(MapBufferedCar([i \in 1..Len(locs) |-> ViewCarData(locs[i])]))
        data == [raceControl |-> RaceControlOf(1), teamRadio |-> TeamRadioOf(1),
            positions |-> PositionsOf(1), intervals |-> IntervalsOf(1)]
        snap == updateViewState(Closure(1, d, 1, date_end(1), DriversOf(1), LapsOf(1)),
                                date_start(1), locBuf, cdBuffer, data,
                                [currentCarLocations |-> << >>, currentCarData |-> << >>,
                                 currentRaceControl |-> << >>, currentTeamRadio |-> << >>,
                                 currentPositions |-> << >>, currentIntervals |-> << >>,
                                 currentLap |-> 0])
    IN /\ selectedSession = 1
       /\ drivers = DriversOf(1)
       /\ allLaps = LapsOf(1)
       /\ isLoading = FALSE
       /\ isPlaying = FALSE
       /\ currentTime = date_start(1)
       /\ sessionStart = date_start(1)
       /\ sessionEnd = date_end(1)
       /\ playbackSpeed = 1
       /\ selectedDriver = d
       /\ currentLap = snap.currentLap
       /\ totalLaps = MaxLapNumber(LapsOf(1))
       /\ currentCarLocations = snap.currentCarLocations
       /\ currentCarData = snap.currentCarData
       /\ currentRaceControl = snap.currentRaceControl
       /\ currentTeamRadio = snap.currentTeamRadio
       /\ currentPositions = snap.currentPositions
       /\ currentIntervals = snap.currentIntervals
       /\ currentTimeRef = date_start(1)
       /\ isPlayingRef = FALSE
       /\ isFetchingBuffer = FALSE
       /\ bufferedUntilRef = date_start(1) + 30000
       /\ locationBufferRef = locBuf
       /\ carDataBufferRef = cdBuffer
       /\ fullSessionDataRef = data
       /\ requests = << >>
       /\ chains = [i \in 1..MaxChains |-> NoChain]
       /\ init = [pc |-> "idle", clo |-> clo0]
       /\ pausePending = FALSE
       /\ budget = 0

\* a click on the progress bar of the paused session
ViewSeek(pct) ==
  /\ Idle
  /\ ~isLoading
  /\ sessionStart # NoTime /\ sessionEnd # NoTime
  /\ handleSeek(seekTimeMs(pct))
  /\ UNCHANGED budget

NextView == \E pct \in ViewPcts : ViewSeek(pct)

SpecView == InitView /\ [][NextView]_vars

\* ------------------------------------------------------------- properties
\* C1: at most one fetchDynamicBuffer request is outstanding in every
\* reachable state; a call made while one is outstanding issues nothing.
C1_OneFetchOutstanding ==
  /\ Len(requests) <= 1
  /\ Len(requests) = 1 => isFetchingBuffer

\* a re-buffering seek was made while the fetch of a focus switch or of a tick
\* was outstanding, and only that fetch is outstanding
C1_Witness ==
  /\ Len(requests) = 1
  /\ requests[1].cont.kind \in {"toggle", "tick"}
  /\ bufferedUntilRef = currentTimeRef
  /\ requests[1].startTime # currentTimeRef
  /\ locationBufferRef = EmptyLocationBuffer

\* the tick that the running frame is serving did its work: it advanced the
\* current time
TickProcessed == Tick /\ currentTimeRef' # currentTimeRef

\* C2: on every processed tick of a loaded session, with lookahead =
\* bufferedUntil - currentTime after the advance: if lookahead <
\* threshold(speed) and no fetch is outstanding, exactly one fetch is issued,
\* for [bufferedUntil, bufferedUntil + chunkSize(speed)); otherwise the tick
\* issues no fetch.
C2_PrefetchOnTick ==
  [][(TickProcessed /\ selectedSession # NoSession) =>
       LET lookahead == bufferedUntilRef - currentTimeRef'
       IN IF lookahead < bufferThreshold(playbackSpeed) /\ requests = << >>
          THEN /\ Len(requests') = 1
               /\ requests'[1].startTime = bufferedUntilRef
               /\ requests'[1].durationMs = fetchSize(playbackSpeed)
          ELSE requests' = requests]_vars

\* C3: while a prefetch is outstanding the replay loop keeps processing ticks:
\* in PLAYING, with a fetch outstanding, the loop started by the last run of
\* the replay effect has a frame pending, it is not waiting for the fetch.
C3_LoopNeverWaits ==
  (isPlaying /\ requests # << >>) =>
     \E i \in 1..MaxChains : chains[i].live /\ chains[i].st \in {"scheduled", "due"}

\* C4: a tick while PLAYING with elapsed wall-clock time d: if d is not above
\* 32 ms nothing changes (current time, Snapshot, buffers, elapsed reference);
\* otherwise, when the result does not pass sessionEnd, currentTime increases
\* by exactly d * speedMultiplier and the elapsed reference is reset.
C4_TickAdvance ==
  [][(Tick /\ isPlaying /\ isPlayingRef /\ currentTime # NoTime) =>
       LET d == chains[DueChain].elapsed
       IN IF d <= 32000
          THEN /\ UNCHANGED << currentTime, currentTimeRef, currentCarLocations,
                               currentCarData, currentRaceControl, currentTeamRadio,
                               currentPositions, currentIntervals,
                               currentLap, locationBufferRef, carDataBufferRef, bufferedUntilRef >>
               /\ chains'[DueChain].elapsed = d
          ELSE (sessionEnd # NoTime /\ 1000 * currentTime + d * playbackSpeed <= 1000 * sessionEnd) =>
                 /\ 1000 * currentTime' = 1000 * currentTime + d * playbackSpeed
                 /\ chains'[DueChain].elapsed = 0]_vars

\* C5: once a session is loaded, sessionStart <= currentTime <= sessionEnd in
\* every reachable state.
C5_ClockWithinSession ==
  sessionStart # NoTime => sessionStart <= currentTime /\ currentTime <= sessionEnd

\* C6: when the advance of a processed tick would pass sessionEnd, currentTime
\* becomes exactly sessionEnd and playback becomes STOPPED.
C6_ClampAtEnd ==
  [][(/\ Tick /\ isPlaying /\ isPlayingRef /\ currentTimeRef # NoTime
      /\ Due = {DueChain}
      /\ Processed(chains[DueChain].elapsed)
      /\ sessionEnd # NoTime
      /\ 1000 * currentTimeRef + chains[DueChain].elapsed * playbackSpeed > 1000 * sessionEnd) =>
       (currentTime' = sessionEnd /\ ~isPlaying')]_vars

MessagesAt(t) == SelectSeq(fullSessionDataRef.raceControl, LAMBDA m : m.date <= t)
LapAt(t) ==
  LET started == { i \in 1..Len(allLaps) : allLaps[i].date_start <= t }
  IN IF started = {} THEN 0
     ELSE allLaps[CHOOSE i \in started : \A j \in started : j <= i].lap_number

\* C8: seek(target) takes effect in the step of the seek, in STOPPED and in
\* PLAYING: currentTime is target and the Snapshot is the one of target over
\* the buffers the seek found, whatever fetch is outstanding.
C8_SeekImmediate ==
  [][\A pct \in Pcts : Seek(pct) =>
       LET target == seekTimeMs(pct)
       IN /\ currentTime' = target
          /\ currentTimeRef' = target
          /\ currentRaceControl' = MessagesAt(target)
          /\ currentLap' = LapAt(target)
          /\ currentCarLocations' = ActiveCars(locationBufferRef, target)
          /\ currentCarData' = CarTelemetry(Render, carDataBufferRef, target, currentCarData)
          /\ isPlaying' = isPlaying]_vars

\* playing, a seek to a quarter of session 2 has shown the second message
\* while its own fetch is outstanding
C8_Witness ==
  /\ isPlaying /\ selectedSession = 2
  /\ currentTime = 300000
  /\ Len(currentRaceControl) = 2
  /\ requests # << >>

\* C9: a seek discards the location and telemetry buffers and sets
\* bufferedUntil to target exactly when target > bufferedUntil or
\* target < bufferedUntil - 600000; otherwise it leaves all three unchanged.
C9_SeekDiscards ==
  [][\A pct \in Pcts : Seek(pct) =>
       LET target == seekTimeMs(pct)
       IN IF target > bufferedUntilRef \/ target < bufferedUntilRef - 600000
          THEN /\ locationBufferRef' = EmptyLocationBuffer
               /\ carDataBufferRef' = << >>
               /\ bufferedUntilRef' = target
          ELSE UNCHANGED << locationBufferRef, carDataBufferRef, bufferedUntilRef >>]_vars

\* a seek landed exactly 600000 ms behind the watermark and kept it
C9_Witness ==
  /\ sessionStart # NoTime
  /\ currentTimeRef = bufferedUntilRef - 600000

\* C10: every seek that discards the buffers issues a fresh fetch for
\* [target, target + 30000), whatever the state, another fetch outstanding
\* included.
C10_DiscardingSeekFetches ==
  [][\A pct \in Pcts :
       (Seek(pct) /\ Rebuffers(seekTimeMs(pct), bufferedUntilRef)) =>
         /\ Len(requests') = Len(requests) + 1
         /\ requests'[Len(requests')].startTime = seekTimeMs(pct)
         /\ requests'[Len(requests')].durationMs = 30000]_vars

\* C11: seeking twice in succession to the same target, with no tick and no
\* fetch answered in between, gives the same Snapshot both times: the state a
\* seek leaves is one in which the same seek leaves the Snapshot as it is.
C11_SeekIdempotent ==
  [][\A pct \in Pcts : Seek(pct) =>
       (updateViewState(Render, seekTimeMs(pct), locationBufferRef, carDataBufferRef,
                        fullSessionDataRef, Snapshot))' = Snapshot']_vars

\* the data source answers the fetch of a focus switch
ToggleFetchAnswered ==
  \E k \in 1..Len(requests) :
    requests[k].cont.kind = "toggle" /\ requests' = RemoveAt(requests, k)

\* C12: a focus switch, together with the fetch it issues, changes only the
\* telemetry buffer: no sample is added to, removed from or reordered in any
\* driver's location buffer, and the cars of the Snapshot stay as they are.
C12_FocusSwitchKeepsLocations ==
  [][((\E d \in AllDrivers : toggleDriverSelection(d)) \/ ToggleFetchAnswered) =>
       UNCHANGED << locationBufferRef, currentCarLocations >>]_vars

\* C13: selecting driver S as focus at time t with no fetch outstanding
\* issues at once a fetch scoped to S over a range that starts at t.
C13_FocusFetchScoped ==
  [][\A d \in AllDrivers :
       (/\ toggleDriverSelection(d) /\ selectedDriver # d
        /\ selectedSession # NoSession /\ currentTimeRef # NoTime
        /\ ~isFetchingBuffer /\ requests = << >>) =>
         /\ Len(requests') = 1
         /\ requests'[1].startTime = currentTimeRef
         /\ requests'[1].driver_number = d]_vars

\* C14: a fetch whose requests failed (fetchAPI resolved both to no sample)
\* ends like any other: the call returns, the flag is cleared, the buffers
\* stay as they are, and isPlaying and currentTime are not changed.
C14_FailedFetchHarmless ==
  [][\A k \in 1..Len(requests) :
       FetchComplete(k, << >>, << >>) =>
         /\ isFetchingBuffer' = FALSE
         /\ requests' = RemoveAt(requests, k)
         /\ UNCHANGED << isPlaying, isPlayingRef, currentTime, currentTimeRef,
                         locationBufferRef, carDataBufferRef >>]_vars

\* playing session 1 with driver 44 in focus, the fetch of the focus switch
\* has come back without the samples the source holds for its range
C14_Witness ==
  /\ isPlaying /\ selectedSession = 1 /\ selectedDriver = 44
  /\ requests = << >> /\ ~isFetchingBuffer
  /\ bufferedUntilRef = 30000
  /\ Len(locationBufferRef[44]) = 2

\* C15: once the initialisation of the selected session has completed, the
\* location buffers hold only samples fetched for that session: no sample of
\* a fetch issued for an earlier session is in them.
C15_BuffersOfSelectedSession ==
  (selectedSession # NoSession /\ ~isLoading) =>
    \A d \in AllDrivers : \A i \in 1..Len(locationBufferRef[d]) :
      locationBufferRef[d][i].session_key = selectedSession

\* the timestamps never decrease along the sequence
Sorted(times) == \A i \in 1..Len(times) - 1 : times[i] <= times[i + 1]

\* i is the greatest index of times holding a time <= t, 0 when there is none
GreatestAtOrBefore(times, t, i) ==
  /\ i \in 0..Len(times)
  /\ i # 0 => times[i] <= t
  /\ \A j \in 1..Len(times) : times[j] <= t => j <= i

\* C16: on every buffer sorted by timestamp (empty, or with equal timestamps,
\* included) and every target time, findIndexBefore returns the greatest
\* index whose timestamp is <= the target, and "none" when there is no such
\* index.
C16_FindIndexBefore ==
  /\ Sorted(TimesOf(locationBufferRef[44])) =>
       GreatestAtOrBefore(TimesOf(locationBufferRef[44]), currentTime,
                          findIndexBefore(TimesOf(locationBufferRef[44]), currentTime))
  /\ Sorted(TimesOf(carDataBufferRef)) =>
       GreatestAtOrBefore(TimesOf(carDataBufferRef), currentTime,
                          findIndexBefore(TimesOf(carDataBufferRef), currentTime))

\* the seek to 2000 over samples at 1000, 2000, 2000 found the third, and the
\* telemetry shown is the third sample's
C16_Witness ==
  /\ currentTime = 2000
  /\ TimesOf(locationBufferRef[44]) = << 1000, 2000, 2000 >>
  /\ findIndexBefore(TimesOf(locationBufferRef[44]), currentTime) = 3
  /\ selectedDriver = 44
  /\ currentCarData = << carDataBufferRef[3] >>

\* the fraction q is the value prev + (next - prev) * (t - tPrev) / (tNext - tPrev)
IsBlend(q, prev, next, tPrev, tNext, t) ==
  /\ q.den > 0
  /\ q.num * (tNext - tPrev) = (prev * (tNext - tPrev) + (next - prev) * (t - tPrev)) * q.den

\* C17: when the sorted position buffer of a driver holds adjacent samples
\* prev and next with prev.timestamp <= t < next.timestamp, the position of
\* the Snapshot at t is prev + (next - prev) * (t - prev.timestamp) /
\* (next.timestamp - prev.timestamp) in x and in y, and at t = prev.timestamp
\* it is prev's x and y.
C17_Interpolation ==
  LET locs == locationBufferRef[44]
      t == currentTime
  IN Sorted(TimesOf(locs)) =>
       \A i \in 1..Len(locs) - 1 :
         (locs[i].timestamp <= t /\ t < locs[i + 1].timestamp) =>
           /\ 44 \in DOMAIN currentCarLocations
           /\ IsBlend(currentCarLocations[44].x, locs[i].x, locs[i + 1].x,
                      locs[i].timestamp, locs[i + 1].timestamp, t)
           /\ IsBlend(currentCarLocations[44].y, locs[i].y, locs[i + 1].y,
                      locs[i].timestamp, locs[i + 1].timestamp, t)
           /\ t = locs[i].timestamp =>
                /\ currentCarLocations[44].x.num = locs[i].x * currentCarLocations[44].x.den
                /\ currentCarLocations[44].y.num = locs[i].y * currentCarLocations[44].y.den

\* samples at 1000 (x = 0) and 2000 (x = 100): the seek to 1500 shows x = 50
C17_Witness ==
  /\ currentTime = 1500
  /\ Len(locationBufferRef[44]) = 2
  /\ locationBufferRef[44][1].timestamp = 1000 /\ locationBufferRef[44][1].x = 0
  /\ locationBufferRef[44][2].timestamp = 2000 /\ locationBufferRef[44][2].x = 100
  /\ 44 \in DOMAIN currentCarLocations
  /\ currentCarLocations[44].x.num = 50 * currentCarLocations[44].x.den

\* C18: when t is at or past the last sample of a driver's sorted position
\* buffer, the Snapshot at t shows the driver at that last sample's x and y,
\* and when the driver is in focus the telemetry of the Snapshot is the last
\* telemetry sample as buffered.
C18_LastKnownState ==
  LET locs == locationBufferRef[44]
      cd == carDataBufferRef
      t == currentTime
  IN /\ (Sorted(TimesOf(locs)) /\ Len(locs) > 0 /\ t >= locs[Len(locs)].timestamp) =>
          /\ 44 \in DOMAIN currentCarLocations
          /\ currentCarLocations[44].x = Whole(locs[Len(locs)].x)
          /\ currentCarLocations[44].y = Whole(locs[Len(locs)].y)
     /\ (selectedDriver = 44 /\ Len(cd) > 0 /\ t >= cd[Len(cd)].timestamp) =>
          currentCarData = << cd[Len(cd)] >>

\* C19: no position of a Snapshot is a quotient by zero, whatever the buffer
\* (equal timestamps, any order); and whenever the sample after the one
\* found for t has a timestamp not greater than it, the position, and the
\* telemetry of the driver in focus, are the found sample's values unchanged.
C19_NoDivisionByZero ==
  LET locs == locationBufferRef[44]
      cd == carDataBufferRef
      i == findIndexBefore(TimesOf(locs), currentTime)
      j == findIndexBefore(TimesOf(cd), currentTime)
  IN /\ \A d \in DOMAIN currentCarLocations :
          currentCarLocations[d].x.den > 0 /\ currentCarLocations[d].y.den > 0
     /\ (i \in 1..Len(locs) - 1 /\ locs[i + 1].timestamp <= locs[i].timestamp) =>
          /\ 44 \in DOMAIN currentCarLocations
          /\ currentCarLocations[44].x = Whole(locs[i].x)
          /\ currentCarLocations[44].y = Whole(locs[i].y)
     /\ (selectedDriver = 44 /\ j \in 1..Len(cd) - 1 /\ cd[j + 1].timestamp <= cd[j].timestamp) =>
          currentCarData = << cd[j] >>

\* two samples at 1000 and one at 2000 buffered, position and telemetry shown
\* for the seek to 1000
C19_Witness ==
  /\ currentTime = 1000
  /\ TimesOf(locationBufferRef[44]) = << 1000, 1000, 2000 >>
  /\ TimesOf(carDataBufferRef) = << 1000, 1000, 2000 >>
  /\ 44 \in DOMAIN currentCarLocations
  /\ currentCarLocations[44].x.den > 0
  /\ currentCarData # << >>

\* the team radio of the loaded session up to time t
RadioAt(t) == SelectSeq(fullSessionDataRef.teamRadio, LAMBDA m : m.date <= t)

\* C20: once a session is loaded, the race-control list and the team-radio
\* list of the Snapshot are, at every current time t, exactly the samples of
\* the session with date <= t in the order of the sorted stream: a prefix
\* that grows with t, and that holds nothing later than t after a seek back.
C20_MessagesUpToNow ==
  (~isLoading /\ currentTime # NoTime) =>
     /\ currentRaceControl = MessagesAt(currentTime)
     /\ currentTeamRadio = RadioAt(currentTime)

\* session 1 at 2500: both race-control messages and the two radio messages
\* of 1500 are listed, the radio message of 4000 is not
C20_Witness ==
  /\ ~isLoading /\ selectedSession = 1 /\ currentTime = 2500
  /\ Len(currentRaceControl) = 2
  /\ Len(currentTeamRadio) = 2 /\ Len(fullSessionDataRef.teamRadio) = 3

\* the drivers listed in a list of position or interval entries
ListedIn(entries) == { entries[k].driver_number : k \in 1..Len(entries) }

\* C21: while the session plays and nobody seeks, a driver listed in the
\* positions (or in the intervals) of the Snapshot is still listed in those
\* of every later Snapshot.
C21_StandingsMonotone ==
  [][/\ ListedIn(currentPositions) \subseteq ListedIn(currentPositions')
     /\ ListedIn(currentIntervals) \subseteq ListedIn(currentIntervals')]_vars

\* C22: once a session is loaded, currentLap is at every current time t the
\* lap_number of the last lap start of the session (over all drivers, in the
\* order of the start times) at or before t, and 0 when no lap has started.
C22_CurrentLap ==
  (~isLoading /\ selectedSession # NoSession /\ currentTime # NoTime) =>
     currentLap = LapAt(currentTime)

\* C23: in every reachable state the clock is PLAYING only while a session
\* is selected; in particular a year change, which deselects the session,
\* leaves the clock stopped.
C23_PlayingHasSession == isPlaying => selectedSession # NoSession

\* C24: a change of speed leaves the current time, isPlaying, the buffers
\* and the watermark as they are, and every tick processed afterwards
\* advances the current time by its elapsed time times the multiplier set
\* last, also when the change came while a tick was awaiting a fetch.
C24_SpeedTakesEffect ==
  [][/\ (\E m \in Speeds : SetSpeed(m)) =>
          UNCHANGED << currentTime, currentTimeRef, isPlaying, locationBufferRef,
                       carDataBufferRef, bufferedUntilRef >>
     /\ TickProcessed =>
          currentTimeRef' = newTimeOf(currentTimeRef, chains[DueChain].elapsed, playbackSpeed)]_vars

\* C25: over the speeds of the selector the prefetch threshold and the chunk
\* size never decrease as the multiplier grows, the threshold at 50 is above
\* the threshold at 1, and at the speed playing the chunk is at least the
\* threshold; a prefetch in flight asks for a chunk of that size.
C25_ThresholdAndChunk ==
  /\ \A m \in SpeedOptions :
       m <= playbackSpeed =>
         /\ bufferThreshold(m) <= bufferThreshold(playbackSpeed)
         /\ fetchSize(m) <= fetchSize(playbackSpeed)
  /\ playbackSpeed = 50 => bufferThreshold(playbackSpeed) > bufferThreshold(1)
  /\ fetchSize(playbackSpeed) >= bufferThreshold(playbackSpeed)
  /\ \A k \in 1..Len(requests) :
       requests[k].cont.kind = "tick" =>
         /\ requests[k].durationMs = fetchSize(playbackSpeed)
         /\ requests[k].durationMs >= bufferThreshold(playbackSpeed)

\* playing at speed 50, a tick has asked for its chunk of 500 s
C25_Witness ==
  /\ playbackSpeed = 50 /\ isPlaying
  /\ Len(requests) = 1 /\ requests[1].cont.kind = "tick"
  /\ requests[1].durationMs = 500000

\* C26: in every reachable state the position buffer of each driver is
\* sorted by non-decreasing timestamp.
C26_LocationsSorted ==
  \A d \in AllDrivers : Sorted(TimesOf(locationBufferRef[d]))

\* C27: in every reachable state the telemetry buffer of the driver in focus
\* is sorted by non-decreasing timestamp.
C27_CarDataSorted == Sorted(TimesOf(carDataBufferRef))

\* telemetry samples of different instants are buffered, whichever order
\* they arrived in
C27_Witness ==
  /\ Len(carDataBufferRef) >= 2
  /\ carDataBufferRef[1].timestamp < carDataBufferRef[Len(carDataBufferRef)].timestamp

\* the step empties the telemetry buffer: a switch of focus to another
\* driver, or a seek that re-buffers
EmptiesTelemetry ==
  \/ \E d \in AllDrivers : toggleDriverSelection(d) /\ selectedDriver # d
  \/ \E pct \in Pcts : Seek(pct) /\ Rebuffers(seekTimeMs(pct), bufferedUntilRef)

\* C28: bufferedUntil is a watermark of what completed fetches cover since
\* the buffers were last emptied.  Right after a step that empties the
\* telemetry buffer with a driver in focus no fetch of that driver's
\* telemetry has completed, so the watermark does not lie beyond the current
\* time.
C28_WatermarkCovered ==
  [][(EmptiesTelemetry /\ selectedDriver' # NoDriver /\ currentTimeRef' # NoTime) =>
        bufferedUntilRef' <= currentTimeRef']_vars

\* how many elements of the sequence carry the timestamp t for driver d
TimesIn(samples, d, t) ==
  Cardinality({ i \in 1..Len(samples) : samples[i].driver_number = d /\ samples[i].date = t })

SampleTimes == { l.date : l \in UNION { LocationsOf(s) \cup CarDataOf(s) : s \in Sessions } }

\* C29: when a fetch of the range [s, e) completes, its samples are added to
\* the buffers (the location samples behind what each driver's array held),
\* bufferedUntil afterwards is at least e, also when the result is empty, and
\* it is not lower than before.
C29_FetchCompletion ==
  [][Len(requests') < Len(requests) =>
     \A k \in 1..Len(requests) :
       \A locs \in LocationResults(requests[k]), carData \in CarDataResults(requests[k]) :
         FetchComplete(k, locs, carData) =>
           /\ bufferedUntilRef' >= requests[k].startTime + requests[k].durationMs
           /\ bufferedUntilRef' >= bufferedUntilRef
           /\ \A d \in AllDrivers :
                /\ SubSeq(locationBufferRef'[d], 1, Len(locationBufferRef[d])) = locationBufferRef[d]
                /\ \A t \in SampleTimes :
                     /\ TimesIn(locationBufferRef'[d], d, t) =
                          TimesIn(locationBufferRef[d], d, t) + TimesIn(locs, d, t)
                     /\ TimesIn(carDataBufferRef', d, t) =
                          TimesIn(carDataBufferRef, d, t) + TimesIn(carData, d, t)]_vars

\* session 1 loaded: its initial fetch [0, 30000) has come back empty and the
\* watermark stands at 30000 (no seek of this session goes beyond its end,
\* 10000)
C29_Witness ==
  /\ selectedSession = 1 /\ ~isLoading /\ requests = << >>
  /\ bufferedUntilRef = 30000
  /\ carDataBufferRef = << >>
  /\ \A d \in AllDrivers : locationBufferRef[d] = << >>

\* C30: a seek that keeps the existing buffers has its target inside the
\* range the buffers cover; in particular the target lies before
\* bufferedUntil, the end of the last range fetched.
C30_KeptSeekIsCovered ==
  [][\A pct \in Pcts :
       (Seek(pct) /\ ~Rebuffers(seekTimeMs(pct), bufferedUntilRef)) =>
         seekTimeMs(pct) < bufferedUntilRef]_vars

\* C31: the fetch of a focus switch is not held back by a fetch in flight:
\* putting another driver in focus once the clock is set sends a request,
\* whatever is outstanding.
C31_FocusFetchNotSuppressed ==
  [][\A d \in AllDrivers :
       (toggleDriverSelection(d) /\ selectedDriver # d /\ currentTimeRef # NoTime
          /\ selectedSession # NoSession) =>
         Len(requests') = Len(requests) + 1]_vars

\* C32: fetches in flight are neither cancelled nor checked against the
\* buffer they were issued for.  A step that discards buffers (a re-buffering
\* seek, a focus switch) leaves every outstanding request outstanding, and a
\* request completing into buffers emptied after it was issued has its
\* samples merged like any other.
C32_InFlightNotCancelled ==
  [][/\ EmptiesTelemetry =>
          \A k \in 1..Len(requests) : k <= Len(requests') /\ requests'[k] = requests[k]
     /\ Len(requests') < Len(requests) =>
          \A k \in { n \in 1..Len(requests) :
                        requests[n].startTime + requests[n].durationMs <= bufferedUntilRef } :
            \A locs \in LocationResults(requests[k]), carData \in CarDataResults(requests[k]) :
              FetchComplete(k, locs, carData) =>
                \A i \in 1..Len(locs) :
                  \E j \in 1..Len(locationBufferRef'[locs[i].driver_number]) :
                    locationBufferRef'[locs[i].driver_number][j].timestamp = locs[i].date]_vars

\* session 2 after a seek to its end (900000) that emptied the buffers: the
\* sample at 310000, asked for by the seek before, has been merged into them
C32_Witness ==
  /\ selectedSession = 2 /\ currentTimeRef = 900000 /\ bufferedUntilRef = 900000
  /\ \E i \in 1..Len(locationBufferRef[44]) : locationBufferRef[44][i].timestamp = 310000

\* the number of samples of the stream dated at or before t
CountAtOrBefore(arr, t) == Cardinality({ i \in 1..Len(arr) : arr[i].date <= t })

\* entries is what the backward scan from the last sample at or before t
\* collects: one entry per driver, each the latest sample of its driver at or
\* before t and at most positionWindow samples below the last one, the most
\* recent drivers first, the scan ending with n drivers collected (with one,
\* when n is 0) or with the window exhausted
ScanResult(entries, arr, t, n) ==
  LET idx == CountAtOrBefore(arr, t)
      window == Max(1, idx - positionWindow)..idx
      seen == { arr[i].driver_number : i \in window }
  IN /\ \A k, l \in 1..Len(entries) :
          k # l => entries[k].driver_number # entries[l].driver_number
     /\ \A k \in 1..Len(entries) :
          \E i \in window :
            /\ entries[k] = arr[i]
            /\ \A j \in (i + 1)..Len(arr) :
                 arr[j].date <= t => arr[j].driver_number # arr[i].driver_number
            /\ \A l \in (k + 1)..Len(entries) :
                 \E m \in window : m < i /\ entries[l] = arr[m]
     /\ Len(entries) = Min(Max(1, n), Cardinality(seen))

\* C33: the standings and the intervals a materialization at time t leaves in
\* the Snapshot hold at most one entry per driver, each entry is its driver's
\* latest sample with timestamp <= t, and the backward scan stops with as many
\* drivers as are known collected or 500 samples below the index found.
C33_LatestPerSubject ==
  [][(currentPositions' # currentPositions \/ currentIntervals' # currentIntervals) =>
       /\ ScanResult(currentPositions', fullSessionDataRef'.positions, currentTimeRef',
                     Cardinality(drivers'))
       /\ ScanResult(currentIntervals', fullSessionDataRef'.intervals, currentTimeRef',
                     Cardinality(drivers'))]_vars

\* the samples around t that updateViewState blends: the one findIndexBefore
\* returns and its successor, when there are both and their timestamps differ
Blends(buf, t) ==
  LET idx == findIndexBefore(TimesOf(buf), t)
  IN idx # 0 /\ idx < Len(buf) /\ buf[idx + 1].timestamp > buf[idx].timestamp

PrevOf(buf, t) == buf[findIndexBefore(TimesOf(buf), t)]
NextOf(buf, t) == buf[findIndexBefore(TimesOf(buf), t) + 1]

\* the fraction q lies between the numbers a and b
Between(q, a, b) == q.den > 0 /\ Min(a, b) * q.den <= q.num /\ q.num <= Max(a, b) * q.den

\* C34: whenever the materialization at the current time t blends two samples
\* of a buffer, whatever the order the buffer is in, the ratio
\* (t - prev.timestamp) / (next.timestamp - prev.timestamp) is in [0, 1] and
\* every blended field of the Snapshot lies between prev's and next's values.
C34_RatioInUnitInterval ==
  LET t == currentTime
      cd == carDataBufferRef
  IN /\ \A d \in AllDrivers :
          LET locs == locationBufferRef[d]
          IN Blends(locs, t) =>
               /\ 0 <= t - PrevOf(locs, t).timestamp
               /\ t - PrevOf(locs, t).timestamp
                    <= NextOf(locs, t).timestamp - PrevOf(locs, t).timestamp
               /\ d \in DOMAIN currentCarLocations
               /\ Between(currentCarLocations[d].x, PrevOf(locs, t).x, NextOf(locs, t).x)
               /\ Between(currentCarLocations[d].y, PrevOf(locs, t).y, NextOf(locs, t).y)
     /\ (selectedDriver # NoDriver /\ Blends(cd, t)) =>
          /\ 0 <= t - PrevOf(cd, t).timestamp
          /\ t - PrevOf(cd, t).timestamp <= NextOf(cd, t).timestamp - PrevOf(cd, t).timestamp
          /\ currentCarData # << >>
          /\ Between(Whole(currentCarData[1].speed), PrevOf(cd, t).speed, NextOf(cd, t).speed)
          /\ Between(Whole(currentCarData[1].rpm), PrevOf(cd, t).rpm, NextOf(cd, t).rpm)
          /\ Between(Whole(currentCarData[1].throttle), PrevOf(cd, t).throttle,
                     NextOf(cd, t).throttle)
          /\ Between(Whole(currentCarData[1].brake), PrevOf(cd, t).brake, NextOf(cd, t).brake)

\* a buffer out of order, 2000 3000 1000, seen at 2500: the samples at 2000
\* and 3000 are blended
C34_Witness ==
  /\ currentTime = 2500
  /\ TimesOf(locationBufferRef[44]) = << 2000, 3000, 1000 >>
  /\ locationBufferRef[44][1].x # locationBufferRef[44][2].x
  /\ 44 \in DOMAIN currentCarLocations

\* C35: a fetch of [s, e) that failed (the source holds samples of the range
\* and none came back) is asked for again by the next prefetch of a tick.  The
\* tick's prefetch starts at bufferedUntil, so when the watermark stood at or
\* below s before the failure it is not above s after it.
C35_FailedRangeRetried ==
  [][Len(requests') < Len(requests) =>
       \A k \in { n \in 1..Len(requests) :
                    /\ bufferedUntilRef <= requests[n].startTime
                    /\ LocationResults(requests[n]) # { << >> } } :
         FetchComplete(k, << >>, << >>) => bufferedUntilRef' <= requests[k].startTime]_vars

\* the tick loops that have a frame scheduled, a callback due or a tick
\* awaiting its fetch
Loops == { i \in 1..MaxChains : chains[i].st # "dead" }

\* C36: while the clock runs there is never more than one tick loop, scheduled
\* or suspended on a fetch, that can still advance the current time.
C36_OneLoop == (isPlayingRef /\ currentTimeRef # NoTime) => Cardinality(Loops) <= 1

\* The behaviours of a session that plays at speed 10 while the operator does
\* nothing but pause and play.
InitPause == LiveStartAt(1, 10) /\ budget = MaxSteps

NextPause ==
  \/ \E f \in FrameDeltas : Frame(f)
  \/ Tick
  \/ PlayPause
  \/ Answered

SpecPause == InitPause /\ [][NextPause]_vars

\* C37: while the clock is paused no tick changes the current time or sends a
\* prefetch, and a tick that advances the current time after play advances it
\* by no more than the wall-clock time the loop started by play has measured
\* (since play, or since its last processed tick) times the speed.
C37_PauseFreezesTime ==
  [][Tick =>
       /\ ~isPlaying => UNCHANGED << currentTime, currentTimeRef, requests >>
       /\ currentTimeRef' # currentTimeRef =>
            \E i \in Loops :
              /\ chains[i].live
              /\ currentTimeRef' - currentTimeRef
                   <= newTimeOf(0, chains[i].elapsed, playbackSpeed)]_vars

\* C38: every sample of the telemetry buffer and the telemetry of the Snapshot
\* belong to the driver in focus, and with no driver in focus the telemetry
\* buffer is empty and the Snapshot shows no telemetry.
C38_TelemetryOfFocus ==
  /\ \A i \in 1..Len(carDataBufferRef) : carDataBufferRef[i].driver_number = selectedDriver
  /\ \A i \in 1..Len(currentCarData) : currentCarData[i].driver_number = selectedDriver

\* the Snapshot of a component that has materialized nothing yet
BlankSnapshot ==
  [currentCarLocations |-> << >>, currentCarData |-> << >>, currentRaceControl |-> << >>,
   currentTeamRadio |-> << >>, currentPositions |-> << >>, currentIntervals |-> << >>,
   currentLap |-> 0]

\* C39: the Snapshot of a materialization depends on the instant, the buffers,
\* the session data and the focus only: a seek to t leaves the Snapshot that
\* a materialization at t leaves over the same data when nothing was
\* materialized before.
C39_SnapshotIsFunctionOfTime ==
  [][\A pct \in ViewPcts :
       ViewSeek(pct) =>
         LET fresh == updateViewState(Render, seekTimeMs(pct), locationBufferRef,
                                      carDataBufferRef, fullSessionDataRef, BlankSnapshot)
         IN /\ currentCarLocations' = fresh.currentCarLocations
            /\ currentCarData' = fresh.currentCarData
            /\ currentRaceControl' = fresh.currentRaceControl
            /\ currentTeamRadio' = fresh.currentTeamRadio
            /\ currentPositions' = fresh.currentPositions
            /\ currentIntervals' = fresh.currentIntervals
            /\ currentLap' = fresh.currentLap]_vars

\* C40: while the session plays and nobody seeks, currentLap does not decrease
\* from one materialization to the next, and it stays within 0 .. totalLaps.
C40_LapMonotone ==
  [][/\ currentLap' >= currentLap
     /\ 0 <= currentLap' /\ currentLap' <= totalLaps']_vars

====
